---- MODULE Spec2Model ----
(***************************************************************************)
(* Model of stats/swif2_status.py: the swif2 status aggregator.            *)
(*                                                                         *)
(* Python strings are sequences of one-character strings, so that          *)
(* strip(), split(), replace() and int() are computed, not assumed.        *)
(* A dict is a function whose domain is its key set.  None is a record     *)
(* with ok = FALSE (an int result) or none = TRUE (a fetch result).        *)
(***************************************************************************)
EXTENDS Integers, Sequences, FiniteSets, TLC

VARIABLES
    basename,             \* args.basename
    max_workflows,        \* args.max_workflows
    i,                    \* the loop index the for statement yields next
    pc,                   \* "loop" | "done"
    totals,               \* dict: tracked field -> running sum
    problem_type_counts,  \* defaultdict(int): label -> count
    workflows_queried,    \* int
    workflow_stats,       \* list of wf_stats dicts
    fetched,              \* what get_workflow_status returned, per index
    order,                \* the indices folded so far, in fold order
    overall,              \* the overall rates of the summary
    rows,                 \* the per-workflow rates of the summary
    arg,                  \* the argument of a function applied on its own
    ret                   \* its result

vars == <<basename, max_workflows, i, pc, totals, problem_type_counts,
          workflows_queried, workflow_stats, fetched, order, overall, rows,
          arg, ret>>

---------------------------------------------------------------------------
(* Bounds of the model                                                     *)

MaxWorkflows == 3
MaxValueLen == 4
MaxTextLen == 6

---------------------------------------------------------------------------
(* Python str primitives                                                   *)

\* the characters str.strip() and int() treat as whitespace (ASCII subset)
Whitespace == {" ", "\t", "\n"}

Digits == {"0", "1", "2", "3", "4", "5", "6", "7", "8", "9"}

DigitVal(c) ==
    CASE c = "0" -> 0 [] c = "1" -> 1 [] c = "2" -> 2 [] c = "3" -> 3
      [] c = "4" -> 4 [] c = "5" -> 5 [] c = "6" -> 6 [] c = "7" -> 7
      [] c = "8" -> 8 [] c = "9" -> 9

DigitChar(d) ==
    CASE d = 0 -> "0" [] d = 1 -> "1" [] d = 2 -> "2" [] d = 3 -> "3"
      [] d = 4 -> "4" [] d = 5 -> "5" [] d = 6 -> "6" [] d = 7 -> "7"
      [] d = 8 -> "8" [] d = 9 -> "9"

RECURSIVE LStrip(_)
LStrip(s) ==
    IF s # <<>> /\ Head(s) \in Whitespace THEN LStrip(Tail(s)) ELSE s

RECURSIVE RStrip(_)
RStrip(s) ==
    IF s # <<>> /\ s[Len(s)] \in Whitespace
    THEN RStrip(SubSeq(s, 1, Len(s) - 1))
    ELSE s

\* str.strip()
Strip(s) == RStrip(LStrip(s))

\* str.find(c) + 1: the position of the first c in s, 0 when there is none
Find(s, c) ==
    IF \E j \in 1..Len(s) : s[j] = c
    THEN CHOOSE j \in 1..Len(s) : s[j] = c /\ \A k \in 1..(j - 1) : s[k] # c
    ELSE 0

\* str.split(c): always at least one piece
RECURSIVE Split(_, _)
Split(s, c) ==
    LET p == Find(s, c)
    IN  IF p = 0
        THEN <<s>>
        ELSE <<SubSeq(s, 1, p - 1)>> \o Split(SubSeq(s, p + 1, Len(s)), c)

\* str.replace(c, '')
Remove(s, c) == SelectSeq(s, LAMBDA x : x # c)

\* str(n) for n >= 0, as an f-string formats it
RECURSIVE IntToStr(_)
IntToStr(n) ==
    IF n < 10 THEN <<DigitChar(n)>>
    ELSE IntToStr(n \div 10) \o <<DigitChar(n % 10)>>

\* d[k] = v
Put(d, k, v) == [x \in (DOMAIN d) \cup {k} |-> IF x = k THEN v ELSE d[x]]

None == [ok |-> FALSE, val |-> 0]
Some(n) == [ok |-> TRUE, val |-> n]

\* the value of a run of digits with '_' separators, most significant first
RECURSIVE DigitsValue(_, _)
DigitsValue(s, acc) ==
    IF s = <<>> THEN acc
    ELSE IF Head(s) = "_" THEN DigitsValue(Tail(s), acc)
    ELSE DigitsValue(Tail(s), acc * 10 + DigitVal(Head(s)))

\* int(s): surrounding whitespace, one optional sign, then digits, in which
\* single underscores may stand between two digits; ValueError otherwise
PyInt(s) ==
    LET t == Strip(s)
        signed == t # <<>> /\ Head(t) \in {"+", "-"}
        body == IF signed THEN Tail(t) ELSE t
        wellformed ==
            /\ body # <<>>
            /\ \A j \in 1..Len(body) : body[j] \in Digits \cup {"_"}
            /\ body[1] \in Digits
            /\ body[Len(body)] \in Digits
            /\ \A j \in 1..(Len(body) - 1) : ~(body[j] = "_" /\ body[j + 1] = "_")
    IN  IF ~wellformed THEN None
        ELSE IF signed /\ Head(t) = "-" THEN Some(0 - DigitsValue(body, 0))
        ELSE Some(DigitsValue(body, 0))

---------------------------------------------------------------------------
(* The module's functions                                                  *)

s_jobs == <<"j","o","b","s">>
s_undispatched == <<"u","n","d","i","s","p","a","t","c","h","e","d">>
s_dispatched == <<"d","i","s","p","a","t","c","h","e","d">>
s_dispatched_preparing == <<"d","i","s","p","a","t","c","h","e","d","_","p","r","e","p","a","r","i","n","g">>
s_dispatched_running == <<"d","i","s","p","a","t","c","h","e","d","_","r","u","n","n","i","n","g">>
s_dispatched_pending == <<"d","i","s","p","a","t","c","h","e","d","_","p","e","n","d","i","n","g">>
s_dispatched_other == <<"d","i","s","p","a","t","c","h","e","d","_","o","t","h","e","r">>
s_dispatched_reaping == <<"d","i","s","p","a","t","c","h","e","d","_","r","e","a","p","i","n","g">>
s_succeeded == <<"s","u","c","c","e","e","d","e","d">>
s_abandoned == <<"a","b","a","n","d","o","n","e","d">>
s_problems == <<"p","r","o","b","l","e","m","s">>
s_attempts == <<"a","t","t","e","m","p","t","s">>
s_max_concurrent == <<"m","a","x","_","c","o","n","c","u","r","r","e","n","t">>
s_input_mb_processed == <<"i","n","p","u","t","_","m","b","_","p","r","o","c","e","s","s","e","d">>
s_output_mb_generated == <<"o","u","t","p","u","t","_","m","b","_","g","e","n","e","r","a","t","e","d">>
s_problem_types == <<"p","r","o","b","l","e","m","_","t","y","p","e","s">>

NUMERIC_FIELDS ==
    << s_jobs, s_undispatched, s_dispatched, s_dispatched_preparing,
       s_dispatched_running, s_dispatched_pending, s_dispatched_other,
       s_dispatched_reaping, s_succeeded, s_abandoned, s_problems,
       s_attempts, s_max_concurrent, s_input_mb_processed,
       s_output_mb_generated >>

\* the keys of wf_stats besides 'name'
SNAPSHOT_FIELDS == {s_jobs, s_succeeded, s_problems}

\* mutant: a key already in data keeps its first value
RECURSIVE ParseLines_FirstWins(_, _)
ParseLines_FirstWins(lines, data) ==
    IF lines = <<>> THEN data
    ELSE LET line == Head(lines)
             p == Find(line, "=")
             key == Strip(SubSeq(line, 1, p - 1))
         IN  IF p = 0 \/ key \in DOMAIN data
             THEN ParseLines_FirstWins(Tail(lines), data)
             ELSE ParseLines_FirstWins(Tail(lines),
                      Put(data, key, Strip(SubSeq(line, p + 1, Len(line)))))

\* parse_status_output: the lines of output.strip(), folded into a dict
RECURSIVE ParseLines(_, _)
ParseLines(lines, data) ==
    IF lines = <<>> THEN data
    ELSE LET line == Head(lines)
             p == Find(line, "=")
         IN  IF p = 0
             THEN ParseLines(Tail(lines), data)
             ELSE ParseLines(Tail(lines),
                      Put(data, Strip(SubSeq(line, 1, p - 1)),
                                Strip(SubSeq(line, p + 1, Len(line)))))

parse_status_output(output) == ParseLines(Split(Strip(output), "\n"), <<>>)

\* mutant: int(value), the separators left in
parse_numeric_value_KeepCommas(value) == PyInt(value)

parse_numeric_value(value) == PyInt(Remove(value, ","))

\* get_workflow_status returns result.stdout, or None on a timeout or error
NoneOutput == [none |-> TRUE, text |-> <<>>]
Stdout(text) == [none |-> FALSE, text |-> text]

\* mutant: `if output is None`, so that '' is folded as a report
Truthy_NoneOnly(output) == ~output.none

\* `if not output`: None and '' are both falsy
Truthy(output) == ~output.none /\ output.text # <<>>

\* mutant: workflow suffixes that start at 0
WorkflowName_ZeroBased(base, idx) == base \o <<"_">> \o IntToStr(idx - 1)

\* f"{args.basename}_{i}"
WorkflowName(base, idx) == base \o <<"_">> \o IntToStr(idx)

\* mutant: the += indented under `if field in wf_stats`
SumNumericFields_SnapshotFieldsOnly(tot, data) ==
    [f \in DOMAIN tot |->
        IF f \in DOMAIN data /\ parse_numeric_value(data[f]).ok
           /\ f \in SNAPSHOT_FIELDS
        THEN tot[f] + parse_numeric_value(data[f]).val
        ELSE tot[f]]

\* mutant: totals[field] = value
SumNumericFields_Assign(tot, data) ==
    [f \in DOMAIN tot |->
        IF f \in DOMAIN data /\ parse_numeric_value(data[f]).ok
        THEN parse_numeric_value(data[f]).val
        ELSE tot[f]]

\* mutant: `if value > 0` in place of `if value is not None`
SumNumericFields_SkipNegative(tot, data) ==
    [f \in DOMAIN tot |->
        IF f \in DOMAIN data /\ parse_numeric_value(data[f]).ok
           /\ parse_numeric_value(data[f]).val > 0
        THEN tot[f] + parse_numeric_value(data[f]).val
        ELSE tot[f]]

\* the loop over NUMERIC_FIELDS: totals[field] += value
SumNumericFields(tot, data) ==
    [f \in DOMAIN tot |->
        IF f \in DOMAIN data /\ parse_numeric_value(data[f]).ok
        THEN tot[f] + parse_numeric_value(data[f]).val
        ELSE tot[f]]

\* mutant: wf_stats[field] = int(data[field]), the separators left in
WfField_KeepCommas(data, f) ==
    IF f \in DOMAIN data /\ PyInt(data[f]).ok
    THEN PyInt(data[f]).val
    ELSE 0

\* wf_stats[field] as the same loop leaves it
WfField(data, f) ==
    IF f \in DOMAIN data /\ parse_numeric_value(data[f]).ok
    THEN parse_numeric_value(data[f]).val
    ELSE 0

\* wf_stats after the loop over NUMERIC_FIELDS
WfStats(name, data) ==
    [name |-> name,
     jobs |-> WfField(data, s_jobs),
     succeeded |-> WfField(data, s_succeeded),
     problems |-> WfField(data, s_problems)]

\* problem_type_counts[ptype] += 1 on a defaultdict(int)
Increment(counts, ptype) ==
    Put(counts, ptype, IF ptype \in DOMAIN counts THEN counts[ptype] + 1 ELSE 1)

\* for ptype in data['problem_types'].split(','): strip, count if non-empty
RECURSIVE CountLabels(_, _)
CountLabels(ptypes, counts) ==
    IF ptypes = <<>> THEN counts
    ELSE LET ptype == Strip(Head(ptypes))
         IN  CountLabels(Tail(ptypes),
                         IF ptype # <<>> THEN Increment(counts, ptype) ELSE counts)

CountProblemTypes(counts, data) ==
    IF s_problem_types \in DOMAIN data /\ data[s_problem_types] # <<>>
    THEN CountLabels(Split(data[s_problem_types], ","), counts)
    ELSE counts

\* mutant: range(1, max_workflows)
LoopDone_OffByOne(idx, n) == idx >= n

\* range(1, max_workflows + 1) is exhausted
LoopDone(idx, n) == idx > n

\* f"{rate:.2f}" of (count / jobs) * 100, in hundredths of a percent: the
\* hundredth nearest to the double.  When the exact quotient lies halfway
\* between two hundredths, the rounding of the double decides which one is
\* printed (125/160 prints 78.12, 15/160 prints 9.38), so both are admitted.
TwoDecimals(count, jobs) ==
    LET t == 2 * count * 10000 + jobs
        q == t \div (2 * jobs)
    IN  IF t % (2 * jobs) = 0 THEN {q - 1, q} ELSE {q}

NoData == [nodata |-> TRUE, completion |-> 0, success |-> 0, failure |-> 0]

\* mutant: no guard on jobs, a zero denominator printed as 0.00%
Rates_ZeroPercent(jobs, succeeded, problems) ==
    IF jobs # 0
    THEN {[nodata |-> FALSE, completion |-> c, success |-> s, failure |-> f] :
              c \in TwoDecimals(succeeded + problems, jobs),
              s \in TwoDecimals(succeeded, jobs),
              f \in TwoDecimals(problems, jobs)}
    ELSE {[nodata |-> FALSE, completion |-> 0, success |-> 0, failure |-> 0]}

\* the rates printed for the totals and for each wf_stats: 'No jobs found'
\* or 'N/A' unless jobs > 0
Rates(jobs, succeeded, problems) ==
    IF jobs > 0
    THEN {[nodata |-> FALSE, completion |-> c, success |-> s, failure |-> f] :
              c \in TwoDecimals(succeeded + problems, jobs),
              s \in TwoDecimals(succeeded, jobs),
              f \in TwoDecimals(problems, jobs)}
    ELSE {NoData}

\* for wf in workflow_stats: one row of rates each
RECURSIVE RowRates(_)
RowRates(stats) ==
    IF stats = <<>> THEN {<<>>}
    ELSE {<<r>> \o rest :
              r \in Rates(Head(stats).jobs, Head(stats).succeeded,
                          Head(stats).problems),
              rest \in RowRates(Tail(stats))}

---------------------------------------------------------------------------
(* What swif2 may answer                                                   *)

NL == <<"\n">>
Line(key, value) == key \o <<"=">> \o value

s_disk_full == <<"d","i","s","k","_","f","u","l","l">>
s_timeout == <<"t","i","m","e","o","u","t">>
s_workflow_id == <<"w","o","r","k","f","l","o","w","_","i","d">>

\* jobs=50 / succeeded=45 / problems=5 / problem_types=disk_full
ReportA ==
    Stdout(Line(s_jobs, <<"5","0">>) \o NL \o Line(s_succeeded, <<"4","5">>) \o NL
           \o Line(s_problems, <<"5">>) \o NL \o Line(s_problem_types, s_disk_full))

\* jobs=20 / succeeded=20 / problems=0
ReportB ==
    Stdout(Line(s_jobs, <<"2","0">>) \o NL \o Line(s_succeeded, <<"2","0">>) \o NL
           \o Line(s_problems, <<"0">>))

\* jobs=10 / problem_types=timeout, timeout, disk_full / workflow_id=7
ReportC ==
    Stdout(Line(s_jobs, <<"1","0">>) \o NL
           \o Line(s_problem_types,
                   s_timeout \o <<",", " ">> \o s_timeout \o <<",", " ">> \o s_disk_full)
           \o NL \o Line(s_workflow_id, <<"7">>))

\* jobs=100 / succeeded=80 / problems=10
ReportD ==
    Stdout(Line(s_jobs, <<"1","0","0">>) \o NL \o Line(s_succeeded, <<"8","0">>) \o NL
           \o Line(s_problems, <<"1","0">>))

\* jobs=N/A / succeeded = 12,345 / attempts=-5 / a line without '='
ReportE ==
    Stdout(Line(s_jobs, <<"N","/","A">>) \o NL
           \o Line(s_succeeded \o <<" ">>, <<" ","1","2",",","3","4","5">>) \o NL
           \o Line(s_attempts, <<"-","5">>) \o NL \o <<"n","o"," ","d","a","t","a">>)

\* jobs=3 / succeeded=1 / problems=1
ReportF ==
    Stdout(Line(s_jobs, <<"3">>) \o NL \o Line(s_succeeded, <<"1">>) \o NL
           \o Line(s_problems, <<"1">>))

\* a blank line only
ReportBlank == Stdout(<<" ", "\n">>)

EmptyOutput == Stdout(<<>>)

StatusResults ==
    {NoneOutput, EmptyOutput, ReportBlank, ReportA, ReportB, ReportC, ReportD,
     ReportE, ReportF}

Basenames == {<<"h","p","s">>, <<"r","_","2">>}

---------------------------------------------------------------------------
(* main()                                                                  *)

NotApplied == [done |-> FALSE, val |-> <<>>]

InitRun ==
    /\ i = 1
    /\ pc = "loop"
    /\ totals = [f \in {NUMERIC_FIELDS[k] : k \in DOMAIN NUMERIC_FIELDS} |-> 0]
    /\ problem_type_counts = <<>>
    /\ workflows_queried = 0
    /\ workflow_stats = <<>>
    /\ order = <<>>
    /\ overall = NoData
    /\ rows = <<>>

Init ==
    /\ basename \in Basenames
    /\ max_workflows \in 0..MaxWorkflows
    /\ InitRun
    /\ fetched = <<>>
    /\ arg = <<>>
    /\ ret = NotApplied

\* the body of the for loop, on workflow idx and what its fetch returned
LoopBody(idx, output) ==
    /\ i' = i + 1
    /\ order' = Append(order, idx)
    /\ IF ~Truthy(output)
       THEN UNCHANGED <<totals, problem_type_counts, workflows_queried,
                        workflow_stats>>
       ELSE LET data == parse_status_output(output.text)
            IN  /\ workflows_queried' = workflows_queried + 1
                /\ totals' = SumNumericFields(totals, data)
                /\ workflow_stats' =
                       Append(workflow_stats,
                              WfStats(WorkflowName(basename, idx), data))
                /\ problem_type_counts' =
                       CountProblemTypes(problem_type_counts, data)

\* one iteration of the for loop: fetch workflow i, skip or fold it
Iteration(output) ==
    /\ pc = "loop"
    /\ ~LoopDone(i, max_workflows)
    /\ fetched' = Append(fetched, output)
    /\ LoopBody(i, output)
    /\ UNCHANGED <<basename, max_workflows, pc, overall, rows, arg, ret>>

\* the summary after the loop: overall and per-workflow rates
Summary ==
    /\ pc = "loop"
    /\ LoopDone(i, max_workflows)
    /\ overall' \in Rates(totals[s_jobs], totals[s_succeeded], totals[s_problems])
    /\ rows' \in RowRates(workflow_stats)
    /\ pc' = "done"
    /\ UNCHANGED <<basename, max_workflows, i, totals, problem_type_counts,
                   workflows_queried, workflow_stats, fetched, order, arg, ret>>

Next ==
    \/ \E output \in StatusResults : Iteration(output)
    \/ Summary

Spec == Init /\ [][Next]_vars

\* the loop cannot stall: each fetch returns within its 60 s timeout
LiveSpec == Spec /\ WF_vars(Next)


---------------------------------------------------------------------------
(* parse_numeric_value on every short value, and the loop body on a report *)
(* that holds the value                                                    *)

\* every string over alphabet of at most n characters
Strings(alphabet, n) == UNION {[1..k -> alphabet] : k \in 0..n}

ValueAlphabet == {"0", "1", ",", "-", "+", "_", " ", "N"}

\* jobs=<value> / succeeded=7
ReportWith(value) ==
    Stdout(Line(s_jobs, value) \o NL \o Line(s_succeeded, <<"7">>))

NormInit ==
    /\ basename = <<"h","p","s">>
    /\ max_workflows = 1
    /\ InitRun
    /\ fetched = <<>>
    /\ arg \in Strings(ValueAlphabet, MaxValueLen)
    /\ ret = NotApplied

Normalize ==
    /\ ~ret.done
    /\ ret' = [done |-> TRUE, val |-> parse_numeric_value(arg)]
    /\ fetched' = <<ReportWith(arg)>>
    /\ LoopBody(1, ReportWith(arg))
    /\ UNCHANGED <<basename, max_workflows, pc, overall, rows, arg>>

NormNext == Normalize

NormSpec == NormInit /\ [][NormNext]_vars

---------------------------------------------------------------------------
(* parse_status_output on every short text                                 *)

TextAlphabet == {"k", "=", " ", "\n"}

ParseInit ==
    /\ basename = <<"h","p","s">>
    /\ max_workflows = 0
    /\ InitRun
    /\ fetched = <<>>
    /\ arg \in Strings(TextAlphabet, MaxTextLen)
    /\ ret = NotApplied

Parse ==
    /\ ~ret.done
    /\ ret' = [done |-> TRUE, val |-> parse_status_output(arg)]
    /\ UNCHANGED <<basename, max_workflows, i, pc, totals, problem_type_counts,
                   workflows_queried, workflow_stats, fetched, order, overall,
                   rows, arg>>

ParseNext == Parse

ParseSpec == ParseInit /\ [][ParseNext]_vars

---------------------------------------------------------------------------
(* The loop body run on the workflows in any order: all fetches are given  *)
(* at the start, and each step folds an index not folded yet               *)

PermResults == {NoneOutput, ReportA, ReportC, ReportE}

PermInit ==
    /\ basename = <<"h","p","s">>
    /\ max_workflows \in 0..MaxWorkflows
    /\ InitRun
    /\ fetched \in [1..max_workflows -> PermResults]
    /\ arg = <<>>
    /\ ret = NotApplied

FoldAny(idx) ==
    /\ pc = "loop"
    /\ idx \in 1..max_workflows
    /\ \A k \in DOMAIN order : order[k] # idx
    /\ LoopBody(idx, fetched[idx])
    /\ UNCHANGED <<basename, max_workflows, pc, overall, rows, fetched, arg, ret>>

PermNext ==
    \/ \E idx \in 1..max_workflows : FoldAny(idx)
    \/ Summary

PermSpec == PermInit /\ [][PermNext]_vars

---------------------------------------------------------------------------
(* Reference values of the reports above, worked out by hand from their    *)
(* text: the tracked fields that hold an integer, and the distinct labels  *)
(* of problem_types                                                        *)

TrackedNames == {NUMERIC_FIELDS[k] : k \in DOMAIN NUMERIC_FIELDS}

ReturnedText(output) == output \notin {NoneOutput, EmptyOutput}

ReportValues(output) ==
    CASE output = ReportA -> (s_jobs :> 50 @@ s_succeeded :> 45 @@ s_problems :> 5)
      [] output = ReportB -> (s_jobs :> 20 @@ s_succeeded :> 20 @@ s_problems :> 0)
      [] output = ReportC -> (s_jobs :> 10)
      [] output = ReportD -> (s_jobs :> 100 @@ s_succeeded :> 80 @@ s_problems :> 10)
      [] output = ReportE -> (s_succeeded :> 12345 @@ s_attempts :> (0 - 5))
      [] output = ReportF -> (s_jobs :> 3 @@ s_succeeded :> 1 @@ s_problems :> 1)
      [] OTHER -> <<>>

ReportValue(output, f) ==
    IF f \in DOMAIN ReportValues(output) THEN ReportValues(output)[f] ELSE 0

ReportLabels(output) ==
    CASE output = ReportA -> {s_disk_full}
      [] output = ReportC -> {s_timeout, s_disk_full}
      [] OTHER -> {}

AllLabels == {s_timeout, s_disk_full}

\* the sum of field f over the reports of outs that returned text
RECURSIVE SumOfField(_, _)
SumOfField(outs, f) ==
    IF outs = <<>> THEN 0
    ELSE SumOfField(Tail(outs), f)
         + (IF ReturnedText(Head(outs)) THEN ReportValue(Head(outs), f) ELSE 0)

\* how many reports of outs returned text
RECURSIVE CountReturned(_)
CountReturned(outs) ==
    IF outs = <<>> THEN 0
    ELSE CountReturned(Tail(outs)) + (IF ReturnedText(Head(outs)) THEN 1 ELSE 0)

\* how many reports of outs that returned text carry the label
RECURSIVE CountWithLabel(_, _)
CountWithLabel(outs, label) ==
    IF outs = <<>> THEN 0
    ELSE CountWithLabel(Tail(outs), label)
         + (IF ReturnedText(Head(outs)) /\ label \in ReportLabels(Head(outs))
            THEN 1 ELSE 0)

\* the snapshots of the reports outs[k..], named base_k, base_(k+1), ...
RECURSIVE SnapshotsFrom(_, _, _)
SnapshotsFrom(base, outs, k) ==
    IF k > Len(outs) THEN <<>>
    ELSE (IF ReturnedText(outs[k])
          THEN <<[name |-> base \o <<"_", DigitChar(k)>>,
                  jobs |-> ReportValue(outs[k], s_jobs),
                  succeeded |-> ReportValue(outs[k], s_succeeded),
                  problems |-> ReportValue(outs[k], s_problems)]>>
          ELSE <<>>)
         \o SnapshotsFrom(base, outs, k + 1)

IsPrefix(a, b) == Len(a) <= Len(b) /\ SubSeq(b, 1, Len(a)) = a

\* this step ran one iteration of the loop
Fetched == Len(fetched') = Len(fetched) + 1
LastFetched == fetched'[Len(fetched')]

---------------------------------------------------------------------------
(* C1  After any number of iterations, the total of every one of the 15    *)
(* tracked fields is the sum of that field's integer value over the        *)
(* workflows whose fetch returned text, a field that is absent or not      *)
(* numeric counting 0; K reports with jobs=10 give jobs = 10*K; no other   *)
(* key has a total                                                         *)
C1_TotalsAreSums ==
    /\ DOMAIN totals = TrackedNames
    /\ Cardinality(DOMAIN totals) = 15
    /\ \A f \in TrackedNames : totals[f] = SumOfField(fetched, f)
    /\ (\A k \in DOMAIN fetched : fetched[k] = ReportC)
           => totals[s_jobs] = 10 * Len(fetched)

C1_Witness ==
    /\ fetched = <<ReportC, NoneOutput, ReportE>>
    /\ totals[s_jobs] = 10
    /\ totals[s_succeeded] = 12345

(* C2  The census count of a label is the number of fetched workflows      *)
(* whose problem_types holds the label at least once                       *)
C2_CensusCountsWorkflows ==
    /\ DOMAIN problem_type_counts =
           {l \in AllLabels : CountWithLabel(fetched, l) > 0}
    /\ \A l \in DOMAIN problem_type_counts :
           problem_type_counts[l] = CountWithLabel(fetched, l)

C4_SnapshotsInQueryOrder ==
    /\ [](workflow_stats = SnapshotsFrom(basename, fetched, 1))
    /\ [][IsPrefix(workflow_stats, workflow_stats')]_vars

C4_Witness ==
    /\ fetched = <<ReportE, NoneOutput, ReportD>>
    /\ Len(workflow_stats) = 2
    /\ workflow_stats[1] =
           [name |-> basename \o <<"_", "1">>, jobs |-> 0, succeeded |-> 12345,
            problems |-> 0]
    /\ workflow_stats[2].name = basename \o <<"_", "3">>

\* a printed rate (hundredths of a percent) is the hundredth nearest to
\* count * 100 / jobs
NearestHundredth(rate, count, jobs) ==
    LET d == rate * jobs - count * 10000
    IN  2 * d <= jobs /\ 2 * d >= 0 - jobs

RatesAsPrinted(r, jobs, succeeded, problems) ==
    /\ jobs = 0 => r = NoData
    /\ jobs > 0 =>
         /\ ~r.nodata
         /\ NearestHundredth(r.completion, succeeded + problems, jobs)
         /\ NearestHundredth(r.success, succeeded, jobs)
         /\ NearestHundredth(r.failure, problems, jobs)
         /\ r.completion - (r.success + r.failure) \in {0 - 1, 0, 1}
    /\ (jobs = 100 /\ succeeded = 80 /\ problems = 10) =>
         (r.completion = 9000 /\ r.success = 8000 /\ r.failure = 1000)

(* C5 as amended  The summary never divides by zero: with jobs = 0 the     *)
(* overall rates and a row's rates are 'no data', not 0%; with jobs > 0    *)
(* each is count * 100 / jobs to two decimals, so completion equals        *)
(* success + failure up to one hundredth (100, 80, 10 gives 90, 80, 10)    *)
C5_RatesToTwoDecimals ==
    pc = "done" =>
        /\ RatesAsPrinted(overall, totals[s_jobs], totals[s_succeeded],
                          totals[s_problems])
        /\ Len(rows) = Len(workflow_stats)
        /\ \A k \in DOMAIN rows :
               RatesAsPrinted(rows[k], workflow_stats[k].jobs,
                              workflow_stats[k].succeeded,
                              workflow_stats[k].problems)

C5_Witness ==
    /\ pc = "done"
    /\ fetched = <<ReportD, ReportBlank, ReportF>>
    /\ rows[1] = [nodata |-> FALSE, completion |-> 9000, success |-> 8000,
                  failure |-> 1000]
    /\ rows[2] = NoData
    /\ rows[3] = [nodata |-> FALSE, completion |-> 6667, success |-> 3333,
                  failure |-> 3333]
    /\ ~overall.nodata

(* C5 as stated  With jobs > 0 the rates are exactly count * 100 / jobs,   *)
(* so that completion = success + failure                                  *)
C5_CompletionIsSuccessPlusFailure ==
    pc = "done" =>
        /\ ~overall.nodata => overall.completion = overall.success + overall.failure
        /\ \A k \in DOMAIN rows :
               ~rows[k].nodata => rows[k].completion = rows[k].success + rows[k].failure

\* what this step's report holds for field f
StepValue(f) ==
    IF Fetched /\ ReturnedText(LastFetched) THEN ReportValue(LastFetched, f) ELSE 0

(* C6 as stated  Every tracked total is non-decreasing over every step     *)
C6_TotalsNeverDecrease ==
    [][\A f \in TrackedNames : totals'[f] >= totals[f]]_vars

(* C6 as amended  Every tracked total starts at 0 and a fold step changes  *)
(* it by exactly the integer the report holds for the field, so it does    *)
(* not decrease when that integer is not negative, and decreases when a    *)
(* signed value such as -5 is folded                                       *)
C6_TotalsChangeByFoldedValue ==
    /\ [](fetched = <<>> => \A f \in TrackedNames : totals[f] = 0)
    /\ [][\A f \in TrackedNames :
              /\ totals'[f] = totals[f] + StepValue(f)
              /\ StepValue(f) >= 0 => totals'[f] >= totals[f]
              /\ StepValue(f) < 0 => totals'[f] < totals[f]]_vars

C6_Witness ==
    /\ fetched = <<ReportA, ReportE>>
    /\ totals[s_attempts] = 0 - 5
    /\ totals[s_succeeded] = 12390

\* <<1, 2, ..., n>>
Ascending(n) == [k \in 1..n |-> k]

(* C7  For every N and every mix of outcomes the run fetches 1..N once     *)
(* each in ascending order, is never anywhere but in the loop or at the    *)
(* summary, and reaches the summary; with nothing fetched the summary has  *)
(* all totals 0, no census, no snapshots and 'no data' overall             *)
C7_AlwaysSummarises ==
    /\ <>(pc = "done")
    /\ [](pc \in {"loop", "done"})
    /\ [](order = Ascending(i - 1) /\ Len(fetched) = i - 1)
    /\ [](pc = "done" =>
            /\ order = Ascending(max_workflows)
            /\ workflows_queried = 0 =>
                 /\ \A f \in TrackedNames : totals[f] = 0
                 /\ problem_type_counts = <<>>
                 /\ workflow_stats = <<>> /\ rows = <<>>
                 /\ overall = NoData)

C7_Witness ==
    /\ pc = "done"
    /\ max_workflows = 3
    /\ fetched = <<NoneOutput, EmptyOutput, NoneOutput>>
    /\ workflows_queried = 0
    /\ overall = NoData

---------------------------------------------------------------------------
\* the integer a string of digits and commas denotes, by place value
RECURSIVE PowerOfTen(_)
PowerOfTen(n) == IF n = 0 THEN 1 ELSE 10 * PowerOfTen(n - 1)

RECURSIVE PlaceValue(_, _)
PlaceValue(s, k) ==
    IF k > Len(s) THEN 0
    ELSE (IF s[k] \in Digits
          THEN DigitVal(s[k])
               * PowerOfTen(Cardinality({j \in (k + 1)..Len(s) : s[j] \in Digits}))
          ELSE 0)
         + PlaceValue(s, k + 1)

OnlyDigitsAndCommas(s) ==
    /\ \A j \in DOMAIN s : s[j] \in Digits \cup {","}
    /\ \E j \in DOMAIN s : s[j] \in Digits

\* what the loop body did with the report jobs=<arg> / succeeded=7
FoldedAround(jobs) ==
    /\ workflows_queried = 1
    /\ totals[s_jobs] = jobs
    /\ totals[s_succeeded] = 7
    /\ \A f \in TrackedNames \ {s_jobs, s_succeeded} : totals[f] = 0
    /\ workflow_stats =
           <<[name |-> <<"h","p","s","_","1">>, jobs |-> jobs, succeeded |-> 7,
              problems |-> 0]>>

(* C8 as stated  A value that is empty or holds a character that is        *)
(* neither a digit nor a comma is not numeric                              *)
C8_OnlyDigitsAndCommasAreNumeric ==
    (ret.done /\ (arg = <<>> \/ \E j \in DOMAIN arg : arg[j] \notin Digits \cup {","}))
        => ret.val = None

(* C8 as amended  The normalizer drops every comma and returns the base-10 *)
(* integer: digits with comma separators (at least one digit) give that    *)
(* integer; a value that is empty or holds a character other than a digit, *)
(* a comma, a sign, an underscore or white space is not numeric, while a   *)
(* signed value such as -1 is numeric; the loop body then skips only that  *)
(* field and still folds the report's other fields                         *)
C8_NormalizerDropsCommas ==
    ret.done =>
        /\ OnlyDigitsAndCommas(arg) => ret.val = Some(PlaceValue(arg, 1))
        /\ (arg = <<>> \/ \E j \in DOMAIN arg :
                              arg[j] \notin Digits \cup {",", "+", "-", "_"}
                                            \cup Whitespace)
               => ret.val = None
        /\ arg = <<"-", "1">> => ret.val = Some(0 - 1)
        /\ FoldedAround(IF ret.val.ok THEN ret.val.val ELSE 0)

C8_Witness ==
    /\ ret.done
    /\ arg = <<"1", ",", "0", "1">>
    /\ ret.val = Some(101)
    /\ totals[s_jobs] = 101
    /\ totals[s_succeeded] = 7

---------------------------------------------------------------------------
\* the lines of text t as pairs <<first, last>> of positions, a line
\* ending before each "\n" and at the end of t
LineEnd(t, a) ==
    IF \E j \in a..Len(t) : t[j] = "\n"
    THEN (CHOOSE j \in a..Len(t) :
              t[j] = "\n" /\ \A k \in a..(j - 1) : t[k] # "\n") - 1
    ELSE Len(t)

LinesOf(t) ==
    {<<a, LineEnd(t, a)>> : a \in {a \in 1..(Len(t) + 1) : a = 1 \/ t[a - 1] = "\n"}}

HasEquals(t, l) == \E j \in l[1]..l[2] : t[j] = "="

FirstEquals(t, l) ==
    CHOOSE j \in l[1]..l[2] : t[j] = "=" /\ \A k \in l[1]..(j - 1) : t[k] # "="

\* t[a..b] without the white space at its ends
Trimmed(t, a, b) ==
    LET inked == {j \in a..b : t[j] \notin Whitespace}
    IN  IF inked = {} THEN <<>>
        ELSE SubSeq(t, CHOOSE j \in inked : \A k \in inked : j <= k,
                       CHOOSE j \in inked : \A k \in inked : j >= k)

KeyOf(t, l) == Trimmed(t, l[1], FirstEquals(t, l) - 1)
ValueOf(t, l) == Trimmed(t, FirstEquals(t, l) + 1, l[2])

(* C9  The parsed mapping has as keys exactly the trimmed texts before the *)
(* first '=' of the lines that hold one, each mapped to the trimmed text   *)
(* after that first '=' of the last such line with the key; a text with no *)
(* '=' gives the empty mapping                                             *)
C9_ParserKeysAndValues ==
    ret.done =>
        LET keyed == {l \in LinesOf(arg) : HasEquals(arg, l)}
        IN  /\ DOMAIN ret.val = {KeyOf(arg, l) : l \in keyed}
            /\ \A l \in keyed :
                   (\A m \in keyed : KeyOf(arg, m) = KeyOf(arg, l) => m[1] <= l[1])
                       => ret.val[KeyOf(arg, l)] = ValueOf(arg, l)
            /\ (\A j \in DOMAIN arg : arg[j] # "=") => ret.val = <<>>

C9_Witness ==
    /\ ret.done
    /\ arg = <<"k", "=", "=", "\n", "k", "=">>
    /\ ret.val = (<<"k">> :> <<>>)

---------------------------------------------------------------------------
\* how often the label stands in the report's problem_types
ReportOccurrences(output, label) ==
    CASE output = ReportA /\ label = s_disk_full -> 1
      [] output = ReportC /\ label = s_disk_full -> 1
      [] output = ReportC /\ label = s_timeout -> 2
      [] OTHER -> 0

RECURSIVE SumOfOccurrences(_, _)
SumOfOccurrences(outs, label) ==
    IF outs = <<>> THEN 0
    ELSE SumOfOccurrences(Tail(outs), label)
         + (IF ReturnedText(Head(outs)) THEN ReportOccurrences(Head(outs), label)
            ELSE 0)

\* the indices whose snapshot was appended, in the order of appending
Appended == SelectSeq(order, LAMBDA idx : ReturnedText(fetched[idx]))

\* the snapshots sorted by the index of their workflow
SortedByIndex ==
    [k \in 1..Len(workflow_stats) |->
        workflow_stats[CHOOSE p \in DOMAIN Appended :
            Cardinality({q \in DOMAIN Appended : Appended[q] < Appended[p]}) = k - 1]]

(* C10  Whatever the order in which the fetched reports are folded, the    *)
(* final totals and census counts are those of the reports alone, and the  *)
(* snapshots sorted by query index are the list that index order gives     *)
C10_FoldOrderIsIrrelevant ==
    pc = "done" =>
        /\ \A f \in TrackedNames : totals[f] = SumOfField(fetched, f)
        /\ \A l \in AllLabels :
               (IF l \in DOMAIN problem_type_counts THEN problem_type_counts[l] ELSE 0)
                   = SumOfOccurrences(fetched, l)
        /\ DOMAIN problem_type_counts \subseteq AllLabels
        /\ Len(Appended) = Len(workflow_stats)
        /\ SortedByIndex = SnapshotsFrom(basename, fetched, 1)

C10_Witness ==
    /\ pc = "done"
    /\ fetched = <<ReportA, ReportC, ReportE>>
    /\ order = <<3, 1, 2>>
    /\ totals[s_jobs] = 60
    /\ workflow_stats[1].name = <<"h","p","s","_","3">>

---------------------------------------------------------------------------
\* the sum of one field over the snapshots recorded so far
RECURSIVE SnapshotSum(_, _)
SnapshotSum(stats, f) ==
    IF stats = <<>> THEN 0
    ELSE (CASE f = s_jobs -> Head(stats).jobs
            [] f = s_succeeded -> Head(stats).succeeded
            [] f = s_problems -> Head(stats).problems)
         + SnapshotSum(Tail(stats), f)

(* C11  After every fold step workflows_queried is the length of the       *)
(* snapshot list, and the totals of jobs, succeeded and problems are the   *)
(* sums of those fields over the snapshots, so the overall rates of the    *)
(* summary come from the same counts as the per-workflow rows              *)
C11_TotalsMatchSnapshots ==
    /\ workflows_queried = Len(workflow_stats)
    /\ \A f \in {s_jobs, s_succeeded, s_problems} :
           totals[f] = SnapshotSum(workflow_stats, f)
    /\ pc = "done" =>
           RatesAsPrinted(overall, SnapshotSum(workflow_stats, s_jobs),
                          SnapshotSum(workflow_stats, s_succeeded),
                          SnapshotSum(workflow_stats, s_problems))

C11_Witness ==
    /\ pc = "done"
    /\ fetched = <<ReportE, NoneOutput, ReportA>>
    /\ workflows_queried = 2
    /\ Len(workflow_stats) = 2
    /\ totals[s_succeeded] = 12390
    /\ workflow_stats[1].succeeded = 12345
    /\ workflow_stats[2].succeeded = 45
====
